---- MODULE Spec2Model ----
(***************************************************************************)
(* nix-scope: a terminal dashboard that samples the process table for the  *)
(* nixbld build accounts, resolves each account's build output path and    *)
(* redraws a clipped frame, once or in a loop.                              *)
(*                                                                         *)
(* Text is modelled by TLA+ strings, character by character (Len, SubSeq,  *)
(* \o).  The operating system is the record `world`: the files a cycle can *)
(* read, the /tmp entries, the process table, and whether the external     *)
(* commands can be spawned at all.                                         *)
(***************************************************************************)
EXTENDS Integers, Sequences, FiniteSets, TLC

VARIABLES
    pc,          \* position of the single thread in main/display_screen
    once,        \* Args.once
    delayValid,  \* Args.delay is a value Duration::from_secs_f32 accepts
    term,        \* <<width, height>> returned by terminal_size()
    world,       \* the OS state the current cycle observes
    order,       \* HashMap iteration orders of the current cycle
    accounts,    \* build_users() of the current cycle
    processes,   \* get_processes() result: user -> [path, pids]
    resolved,    \* the paths get_out_path returned in the current cycle
    calls,       \* external queries issued in the current cycle, in order
    frame,       \* print_screen() result
    screen,      \* the clipped and padded lines handed to print!
    termFailed,  \* a terminal_size / print! / flush failure has happened
    atFailure,   \* the step counters at the moment of that failure
    nMeasure, nSample, nRender, nFlush, nSleep,   \* steps completed so far
    rUser, rPid, rOut                             \* one call of get_out_path

vars == <<pc, once, delayValid, term, world, order, accounts, processes,
          resolved, calls, frame, screen, termFailed, atFailure,
          nMeasure, nSample, nRender, nFlush, nSleep, rUser, rPid, rOut>>

(***************************************************************************)
(* Bounds of the model.                                                    *)
(***************************************************************************)
MaxCycles == 2      \* cycles of the repeat loop that are explored
MaxW == 8           \* largest terminal width
MaxH == 6           \* largest terminal height
MaxFrameLen == 3    \* longest frame drawn for the clipping specification

(***************************************************************************)
(* Option<T> and io::Result<T>: <<>> is None / Err, <<v>> is Some(v) /     *)
(* Ok(v).                                                                  *)
(***************************************************************************)
None == <<>>
Some(v) == <<v>>
IsSome(o) == o # <<>>

\* F applied to the value of x, with x evaluated once (a let that binds a value)
Bind(x, F(_)) == CHOOSE r \in {F(v) : v \in {x}} : TRUE

(***************************************************************************)
(* Strings.                                                                *)
(***************************************************************************)
NUL == "\f"    \* stands for the byte 0 that separates /proc/PID/environ

Char(s, i) == SubSeq(s, i, i)

Min(a, b) == IF a <= b THEN a ELSE b

StartsWith(s, p) == Len(s) >= Len(p) /\ SubSeq(s, 1, Len(p)) = p

\* str::strip_prefix, used where the prefix is known to be there
StripPrefix(s, p) == SubSeq(s, Len(p) + 1, Len(s))

\* chars().take(n).collect::<String>()
TakeChars(s, n) == SubSeq(s, 1, Min(n, Len(s)))

\* n blanks (n is at most 64 in every use the model makes)
Spaces(n) ==
    SubSeq("                                                                ", 1, n)

\* format!("{:<w$}", s)
PadRight(s, w) == Bind(s, LAMBDA v : v \o Spaces(w - Len(v)))

\* format!("{:w$}", n) of an integer: right-aligned
PadLeft(s, w) == Bind(s, LAMBDA v : Spaces(w - Len(v)) \o v)

\* str::split(char): the pieces between the separators, at least one piece
RECURSIVE Split(_, _)
SplitFirst(s, c) ==
    IF \E i \in 1..Len(s) : Char(s, i) = c
    THEN Bind(CHOOSE k \in 1..Len(s) :
                  /\ Char(s, k) = c
                  /\ \A j \in 1..(k - 1) : Char(s, j) # c,
              LAMBDA i : <<SubSeq(s, 1, i - 1)>> \o Split(SubSeq(s, i + 1, Len(s)), c))
    ELSE <<s>>

Split(str, c) == Bind(str, LAMBDA s : SplitFirst(s, c))

\* str::lines(): split at "\n", a final empty piece is dropped
Lines(s) ==
    Bind(Split(s, "\n"), LAMBDA parts :
        IF parts[Len(parts)] = "" THEN SubSeq(parts, 1, Len(parts) - 1) ELSE parts)

\* str::split_whitespace(): the non-empty pieces between blanks
SplitWhitespace(s) == SelectSeq(Split(s, " "), LAMBDA p : p # "")

IsDigit(c) == \E d \in 0..9 : ToString(d) = c
DigitVal(c) == CHOOSE d \in 0..9 : ToString(d) = c

\* the number the first n digits of s denote
RECURSIVE DigitsValue(_, _)
DigitsValue(s, n) ==
    IF n = 0 THEN 0 ELSE 10 * DigitsValue(s, n - 1) + DigitVal(Char(s, n))

RECURSIVE StripZeros(_)
StripZeros(str) ==
    Bind(str, LAMBDA s :
        IF Len(s) > 1 /\ Char(s, 1) = "0" THEN StripZeros(SubSeq(s, 2, Len(s))) ELSE s)

\* the digits d denote a magnitude an i32 can hold
FitsI32(d, neg) ==
    \/ Len(d) <= 9
    \/ /\ Len(d) = 10
       /\ \/ DigitsValue(d, 9) < 214748364
          \/ /\ DigitsValue(d, 9) = 214748364
             /\ DigitVal(Char(d, 10)) <= (IF neg THEN 8 ELSE 7)

\* str::parse::<i32>().ok(): optional sign, at least one digit, 32-bit range
\* (the one value -2^31 is left out: the model's integers end above it)
ParseI32(str) ==
    Bind(str, LAMBDA s :
      Bind(IF StartsWith(s, "-") \/ StartsWith(s, "+") THEN SubSeq(s, 2, Len(s)) ELSE s,
        LAMBDA body :
          IF body = "" \/ \E i \in 1..Len(body) : ~IsDigit(Char(body, i)) THEN None
          ELSE Bind(StripZeros(body), LAMBDA d :
                 IF ~FitsI32(d, StartsWith(s, "-")) THEN None
                 ELSE IF StartsWith(s, "-") /\ d = "2147483648" THEN None
                 ELSE IF StartsWith(s, "-") THEN Some(0 - DigitsValue(d, Len(d)))
                 ELSE Some(DigitsValue(d, Len(d))))))

(***************************************************************************)
(* External queries, as the cycle's trace records them.                    *)
(***************************************************************************)
Call(op, arg, ok) == [op |-> op, arg |-> arg, ok |-> ok]

\* fs::read_to_string(path)
ReadToString(w, path) ==
    Bind(path, LAMBDA p : IF p \in DOMAIN w.files THEN w.files[p] ELSE None)

(***************************************************************************)
(* The shell pipeline of get_build_dir:                                    *)
(*   find -L /tmp -maxdepth 1 -user U -exec stat --printf '%Z:%n\n' ...     *)
(*     | sort -n | tail -n1                                                *)
(* prints the "<ctime>:<name>" line of the newest entry U owns, or nothing.*)
(***************************************************************************)
OwnedBy(w, user) == {e \in w.tmp : e.owner = user}

Newest(es) == CHOOSE e \in es : \A f \in es : f.ctime <= e.ctime

ShFind(w, user) ==
    Bind(OwnedBy(w, user), LAMBDA owned :
        IF owned = {} THEN ""
        ELSE Bind(Newest(owned), LAMBDA e :
                 ToString(e.ctime) \o ":" \o e.name \o "\n"))

get_build_dir(w, user) ==
    IF ~w.shRuns THEN None
    ELSE Bind(Lines(ShFind(w, user)), LAMBDA ls :
           Bind(IF ls = <<>> THEN "" ELSE ls[Len(ls)], LAMBDA last_line :
             Bind(Split(last_line, ":"), LAMBDA parts : Some(parts[Len(parts)]))))

EnvVarsPath(build_dir) == build_dir \o "/env-vars"

get_out_from_env_vars(w, build_dir) ==
    Bind(ReadToString(w, EnvVarsPath(build_dir)), LAMBDA env_vars :
        IF ~IsSome(env_vars) THEN None
        ELSE Bind(SelectSeq(Lines(env_vars[1]),
                            LAMBDA l : StartsWith(l, "declare -x out=")),
               LAMBDA hits :
                 IF hits = <<>> THEN None
                 ELSE Bind(Split(hits[1], "\""), LAMBDA parts :
                        IF Len(parts) >= 2 THEN Some(parts[2]) ELSE None)))

EnvironPath(pid) == "/proc/" \o ToString(pid) \o "/environ"

\* a lookup that takes the first variable whose name merely starts with "out"
EnvOut_LoosePrefix(env_content) ==
    Bind(SelectSeq(Split(env_content, NUL), LAMBDA v : StartsWith(v, "out")),
      LAMBDA hits :
        IF hits = <<>> THEN None
        ELSE IF ~StartsWith(hits[1], "out=") THEN None
        ELSE IF StripPrefix(hits[1], "out=") = "" THEN None
        ELSE Some(StripPrefix(hits[1], "out=")))

\* lines 127-134: the value of the first "out=" variable, when not empty
EnvOut(env_content) ==
    Bind(SelectSeq(Split(env_content, NUL), LAMBDA v : StartsWith(v, "out=")),
      LAMBDA hits :
        IF hits = <<>> THEN None
        ELSE IF StripPrefix(hits[1], "out=") = "" THEN None
        ELSE Some(StripPrefix(hits[1], "out=")))

\* lines 137-138: tiers 2 and 3, after tier 1 made the query c1
ScanTiers(w, user, c1) ==
    Bind(get_build_dir(w, user), LAMBDA bd :
      Bind(IF IsSome(bd) THEN bd[1] ELSE "(unknown)", LAMBDA build_dir :
        Bind(get_out_from_env_vars(w, build_dir), LAMBDA ev :
          [path |-> IF IsSome(ev) THEN ev[1] ELSE build_dir,
           calls |-> c1 \o <<Call("sh", user, IsSome(bd)),
                             Call("read", EnvVarsPath(build_dir),
                                  IsSome(ReadToString(w, EnvVarsPath(build_dir))))>>])))

\* the result and the external queries made on the way
get_out_path(w, user, pid) ==
    Bind(ReadToString(w, EnvironPath(pid)), LAMBDA env :
      Bind(IF IsSome(env) THEN EnvOut(env[1]) ELSE None, LAMBDA tier1 :
        IF IsSome(tier1)
        THEN [path |-> tier1[1],
              calls |-> <<Call("read", EnvironPath(pid), TRUE)>>]
        ELSE ScanTiers(w, user, <<Call("read", EnvironPath(pid), IsSome(env))>>)))

(***************************************************************************)
(* ps, as get_processes and per_output_infos run it.  `ps -o user=,pid=    *)
(* -u LIST` prints one "user pid" row for each process of the listed       *)
(* accounts; with an empty list it prints nothing on stdout.               *)
(***************************************************************************)
\* ps pads the user column to 8 characters and right-aligns the pid in 5
PsRow(p) == PadRight(p.user, 8) \o " " \o PadLeft(ToString(p.pid), 5) \o "\n"

\* the rows of the first n processes of the table that belong to `users`
RECURSIVE PsRows(_, _, _)
PsRows(procs, users, n) ==
    IF n = 0 THEN ""
    ELSE PsRows(procs, users, n - 1)
         \o (IF procs[n].user \in users THEN PsRow(procs[n]) ELSE "")

\* Command::new("ps")...output(): Err when ps cannot be spawned
PsList(w, users) ==
    IF ~w.psRuns THEN None ELSE Some(PsRows(w.procs, users, Len(w.procs)))

RECURSIVE PsDetailRows(_, _, _)
PsDetailRows(procs, user, n) ==
    IF n = 0 THEN ""
    ELSE PsDetailRows(procs, user, n - 1)
         \o (IF procs[n].user = user
             THEN PadLeft(ToString(procs[n].pid), 5) \o " builder\n"
             ELSE "")

PsDetail(w, user) ==
    IF ~w.psRuns THEN None
    ELSE Some("  PID COMMAND\n" \o PsDetailRows(w.procs, user, Len(w.procs)))

\* [String]::join(sep) of the first n strings
RECURSIVE JoinFirst(_, _, _)
JoinFirst(strs, sep, n) ==
    IF n = 0 THEN ""
    ELSE IF n = 1 THEN strs[1]
    ELSE JoinFirst(strs, sep, n - 1) \o sep \o strs[n]

Join(strs, sep) == JoinFirst(strs, sep, Len(strs))

\* the orders in which a HashSet / HashMap with these keys can be iterated
Perms(S) ==
    {s \in [1..Cardinality(S) -> S] :
        \A i, j \in 1..Cardinality(S) : i # j => s[i] # s[j]}

build_users(w) == w.group

EmptyMap == [u \in {} |-> <<>>]

\* lines 93-100: one row of the ps output
ParseRow(line) ==
    Bind(SplitWhitespace(line), LAMBDA parts :
        IF Len(parts) >= 2
        THEN Bind(ParseI32(parts[2]), LAMBDA pid :
                 IF IsSome(pid) THEN Some([user |-> parts[1], pid |-> pid[1]])
                 ELSE None)
        ELSE None)

\* lines 101-104: group the pids by user, in discovery order
RECURSIVE FoldRows(_, _, _)
FoldRows(lines, n, init) ==
    IF n = 0 THEN init
    ELSE Bind(<<FoldRows(lines, n - 1, init), ParseRow(lines[n])>>, LAMBDA st :
           IF ~IsSome(st[2]) THEN st[1]
           ELSE IF st[2][1].user \in DOMAIN st[1]
           THEN [st[1] EXCEPT ![st[2][1].user] = Append(@, st[2][1].pid)]
           ELSE st[1] @@ (st[2][1].user :> <<st[2][1].pid>>))

\* lines 86-104: the ps query and the grouping of its rows
user_pid_map(w) ==
    Bind(PsList(w, build_users(w)), LAMBDA output :
        IF IsSome(output)
        THEN Bind(Lines(output[1]), LAMBDA ls : FoldRows(ls, Len(ls), EmptyMap))
        ELSE EmptyMap)

\* lines 106-112: resolve the first n groups of the walk through their
\* first pid; the assertion ends the walk
RECURSIVE ResolveAll(_, _, _, _, _)
ResolveAll(w, upm, ord, n, start) ==
    IF n = 0 THEN start
    ELSE Bind(ResolveAll(w, upm, ord, n - 1, start), LAMBDA acc :
           IF acc.panicked \/ upm[ord[n]] = <<>> THEN acc
           ELSE Bind(get_out_path(w, ord[n], upm[ord[n]][1]), LAMBDA r :
                  [processes |-> IF r.path = "" THEN acc.processes
                                 ELSE acc.processes @@
                                      (ord[n] :> [path |-> r.path, pids |-> upm[ord[n]]]),
                   resolved |-> Append(acc.resolved, r.path),
                   calls |-> acc.calls \o r.calls,
                   panicked |-> r.path = ""]))

\* what get_processes holds after the ps query
Queried(w, usersOrd) ==
    [processes |-> EmptyMap, resolved |-> <<>>, panicked |-> FALSE,
     calls |-> <<Call("ps", Join(usersOrd, ","), w.psRuns)>>]

\* a sampler that returns at once when there are no build accounts
get_processes_EarlyReturn(w, usersOrd, groupsOrd) ==
    IF build_users(w) = {} THEN [Queried(w, usersOrd) EXCEPT !.calls = <<>>]
    ELSE Bind(<<user_pid_map(w), Queried(w, usersOrd)>>, LAMBDA st :
             ResolveAll(w, st[1], groupsOrd, Len(groupsOrd), st[2]))

\* usersOrd: the order the HashSet of build users is joined in;
\* groupsOrd: the order the HashMap user_pid_map is walked in
get_processes(w, usersOrd, groupsOrd) ==
    Bind(<<user_pid_map(w), Queried(w, usersOrd)>>, LAMBDA st :
        ResolveAll(w, st[1], groupsOrd, Len(groupsOrd), st[2]))

CountWidth == 4

per_output_infos(w, user, pids, path) ==
    Bind(PsDetail(w, user), LAMBDA out :
        [info |-> ":: (" \o user \o ") → " \o path,
         ps_output |-> IF IsSome(out) THEN out[1] ELSE "",
         calls |-> <<Call("ps", user, IsSome(out))>>])

\* the number print_screen puts in the summary line: processes.len()
SummaryCount(procs) == Cardinality(DOMAIN procs)

SummaryLine(n) == "Nix build summary (" \o ToString(n) \o " processes)"

GroupLine(g) == "    " \o PadLeft(ToString(Len(g.pids)), CountWidth) \o " → " \o g.path

\* lines 66-68, for the first n groups in iteration order
RECURSIVE GroupLines(_, _, _)
GroupLines(procs, ord, n) ==
    IF n = 0 THEN <<>>
    ELSE Append(GroupLines(procs, ord, n - 1), GroupLine(procs[ord[n]]))

\* lines 73-77, for the first n groups in iteration order
RECURSIVE DetailLines(_, _, _, _)
DetailLines(w, procs, ord, n) ==
    IF n = 0 THEN [lines |-> <<>>, calls |-> <<>>]
    ELSE Bind(<<DetailLines(w, procs, ord, n - 1),
                per_output_infos(w, ord[n], procs[ord[n]].pids, procs[ord[n]].path)>>,
           LAMBDA st :
             [lines |-> st[1].lines \o <<st[2].info>> \o Lines(st[2].ps_output),
              calls |-> st[1].calls \o st[2].calls])

\* sampled: what get_processes returned (it has not panicked);
\* ord: the order the processes map is iterated in, both times
print_screen(w, sampled, ord) ==
    Bind(DetailLines(w, sampled.processes, ord, Len(ord)), LAMBDA detail :
        [lines |-> <<SummaryLine(SummaryCount(sampled.processes))>>
                   \o GroupLines(sampled.processes, ord, Len(ord))
                   \o <<"", " * * * ", "">>
                   \o detail.lines,
         calls |-> sampled.calls \o detail.calls])

\* a clipping that truncates but does not pad
ClipScreen_NoPad(lines, width, height) ==
    [i \in 1..Min(height, Len(lines)) |-> TakeChars(lines[i], width)]

\* lines 42-52 of display_screen, before the join
ClipScreen(lines, width, height) ==
    [i \in 1..Min(height, Len(lines)) |->
        PadRight(TakeChars(lines[i], width), width)]

(***************************************************************************)
(* The operating-system states the specifications draw from.               *)
(***************************************************************************)
Users == {"nixbld1", "nixbld2"}

Proc(user, pid) == [user |-> user, pid |-> pid]

ProcTables ==
    { <<>>,
      <<Proc("nixbld1", 101), Proc("nixbld1", 102)>>,
      <<Proc("nixbld1", 101), Proc("nixbld2", 201), Proc("nixbld1", 102)>> }

TmpEntry(owner, ctime, name) == [owner |-> owner, ctime |-> ctime, name |-> name]

EnvVarsOut(v) == "declare -x out=\"" \o v \o "\""

EnvVarsFile(v) ==
    "declare -x PATH=\"/bin\"\n" \o EnvVarsOut(v) \o "\ndeclare -x system=\"x\"\n"

\* the file systems whose files are the paths of `allowed`, each with one
\* of the contents allowed for it (None: the file cannot be read)
FileSystems(allowed) ==
    {f \in [DOMAIN allowed -> UNION {allowed[p] : p \in DOMAIN allowed}] :
        \A p \in DOMAIN allowed : f[p] \in allowed[p]}

LoopFiles ==
    FileSystems([x \in {EnvironPath(101), "/tmp/a/env-vars"} |->
        IF x = "/tmp/a/env-vars" THEN {None, Some(EnvVarsFile("/bar"))}
        ELSE {None, Some("out=/foo" \o NUL)}])

LoopWorlds ==
    [group : {{}, {"nixbld1"}, Users},
     psRuns : BOOLEAN,
     procs : ProcTables,
     shRuns : BOOLEAN,
     tmp : {{}, {TmpEntry("nixbld1", 1, "/tmp/a"), TmpEntry("nixbld2", 2, "/tmp/e")}},
     files : LoopFiles]

EnvironContents ==
    { None,
      Some(""),
      Some("PATH=/bin" \o NUL),
      Some("out=" \o NUL),
      Some("out=/foo" \o NUL),
      Some("out=/nix/x" \o NUL \o "TMPDIR=/tmp" \o NUL),
      Some("PATH=/bin" \o NUL \o "out=/foo" \o NUL),
      Some("outdir=/x" \o NUL \o "out=/foo" \o NUL) }

ResolveFiles ==
    FileSystems([x \in {EnvironPath(101), "/tmp/a/env-vars", "/tmp/b:c/env-vars",
                        "/tmp/e/env-vars"} |->
        IF x = EnvironPath(101) THEN EnvironContents
        ELSE IF x = "/tmp/a/env-vars"
        THEN {None, Some(EnvVarsFile("/bar")), Some(EnvVarsFile("")),
              Some("declare -x PATH=\"/bin\"\n")}
        ELSE IF x = "/tmp/b:c/env-vars" THEN {None, Some(EnvVarsFile("/baz"))}
        ELSE {None, Some(EnvVarsFile("/qux"))}])

ResolveWorlds ==
    [group : {Users},
     psRuns : {TRUE},
     procs : {<<Proc("nixbld1", 101)>>},
     shRuns : BOOLEAN,
     tmp : SUBSET {TmpEntry("nixbld1", 1, "/tmp/a"),
                   TmpEntry("nixbld1", 2, "/tmp/b:c"),
                   TmpEntry("nixbld2", 3, "/tmp/e")},
     files : ResolveFiles]

NoWorld ==
    [group |-> {}, psRuns |-> FALSE, procs |-> <<>>, shRuns |-> FALSE,
     tmp |-> {}, files |-> EmptyMap]

NoOrder == [users |-> <<>>, groups |-> <<>>, frame |-> <<>>]

NoOut == [path |-> "", calls |-> <<>>]

TermSizes == (0..MaxW) \X (0..MaxH)

\* the sizes the loop specification draws from
LoopTermSizes == {<<MaxW, MaxH>>, <<MaxW \div 2, 1>>}

Counters == <<nMeasure, nSample, nRender, nFlush, nSleep>>

(***************************************************************************)
(* main and display_screen, step by step.                                  *)
(***************************************************************************)
\* the ? operator: an Err leaves main with that error
Try_Swallow(result, next) == next

Try(result, next) == IF IsSome(result) THEN next ELSE "exit_err"

\* lines 27-34: after display_screen returns Ok
AfterDisplay_AlwaysLoop == "sleep"

AfterDisplay == IF once THEN "exit_ok" ELSE "sleep"

\* the data of a cycle is dropped when display_screen returns
DropCycle ==
    /\ world' = NoWorld
    /\ order' = NoOrder
    /\ accounts' = {}
    /\ processes' = EmptyMap
    /\ resolved' = <<>>
    /\ calls' = <<>>
    /\ frame' = <<>>
    /\ screen' = <<>>

\* line 40
TerminalSize ==
    /\ pc = "measure"
    /\ nMeasure < MaxCycles
    /\ \E r \in {None} \cup {Some(sz) : sz \in LoopTermSizes} :
        /\ pc' = Try(r, "sample")
        /\ term' = IF IsSome(r) THEN r[1] ELSE term
        /\ termFailed' = ~IsSome(r)
        /\ nMeasure' = nMeasure + 1
        /\ atFailure' = IF IsSome(r) THEN atFailure
                        ELSE <<nMeasure + 1, nSample, nRender, nFlush, nSleep>>
    /\ UNCHANGED <<once, delayValid, world, order, accounts, processes, resolved,
                   calls, frame, screen, nSample, nRender, nFlush, nSleep,
                   rUser, rPid, rOut>>

\* line 41: print_screen, get_processes within it
PrintScreen ==
    /\ pc = "sample"
    /\ \E w \in LoopWorlds :
       \E usersOrd \in Perms(build_users(w)), groupsOrd \in Perms(DOMAIN user_pid_map(w)) :
        LET sampled == get_processes(w, usersOrd, groupsOrd)
        IN  \E frameOrd \in Perms(DOMAIN sampled.processes) :
            LET shown == IF sampled.panicked THEN [lines |-> <<>>, calls |-> sampled.calls]
                         ELSE print_screen(w, sampled, frameOrd)
            IN  /\ world' = w
                /\ accounts' = build_users(w)
                /\ processes' = sampled.processes
                /\ resolved' = sampled.resolved
                /\ order' = [users |-> usersOrd, groups |-> groupsOrd, frame |-> frameOrd]
                /\ calls' = shown.calls
                /\ frame' = shown.lines
                /\ pc' = IF sampled.panicked THEN "panic" ELSE "render"
    /\ nSample' = nSample + 1
    /\ UNCHANGED <<once, delayValid, term, screen, termFailed, atFailure,
                   nMeasure, nRender, nFlush, nSleep, rUser, rPid, rOut>>

\* lines 42-55: clip, pad, print!; print! panics when stdout cannot be written
Render ==
    /\ pc = "render"
    /\ screen' = ClipScreen(frame, term[1], term[2])
    /\ nRender' = nRender + 1
    /\ \E written \in BOOLEAN :
        /\ pc' = IF written THEN "flush" ELSE "panic"
        /\ termFailed' = ~written
        /\ atFailure' = IF written THEN atFailure
                        ELSE <<nMeasure, nSample, nRender + 1, nFlush, nSleep>>
    /\ UNCHANGED <<once, delayValid, term, world, order, accounts, processes,
                   resolved, calls, frame, nMeasure, nSample, nFlush, nSleep,
                   rUser, rPid, rOut>>

\* lines 56-58 and the return into main
Flush ==
    /\ pc = "flush"
    /\ nFlush' = nFlush + 1
    /\ \E r \in {None, Some("unit")} :
        /\ pc' = Try(r, AfterDisplay)
        /\ termFailed' = ~IsSome(r)
        /\ atFailure' = IF IsSome(r) THEN atFailure
                        ELSE <<nMeasure, nSample, nRender, nFlush + 1, nSleep>>
    /\ DropCycle
    /\ UNCHANGED <<once, delayValid, term, nMeasure, nSample, nRender, nSleep,
                   rUser, rPid, rOut>>

\* line 32: Duration::from_secs_f32 panics on a negative or non-finite delay
Sleep ==
    /\ pc = "sleep"
    /\ nSleep' = nSleep + 1
    /\ pc' = IF delayValid THEN "measure" ELSE "panic"
    /\ UNCHANGED <<once, delayValid, term, world, order, accounts, processes,
                   resolved, calls, frame, screen, termFailed, atFailure,
                   nMeasure, nSample, nRender, nFlush, rUser, rPid, rOut>>

\* one call of get_out_path
Resolve ==
    /\ pc = "resolve"
    /\ rOut' = get_out_path(world, rUser, rPid)
    /\ pc' = "resolved"
    /\ UNCHANGED <<once, delayValid, term, world, order, accounts, processes,
                   resolved, calls, frame, screen, termFailed, atFailure,
                   nMeasure, nSample, nRender, nFlush, nSleep, rUser, rPid>>

\* nothing has run yet
Fresh ==
    /\ order = NoOrder
    /\ accounts = {}
    /\ processes = EmptyMap
    /\ resolved = <<>>
    /\ calls = <<>>
    /\ screen = <<>>
    /\ termFailed = FALSE
    /\ atFailure = <<0, 0, 0, 0, 0>>
    /\ nMeasure = 0 /\ nSample = 0 /\ nRender = 0 /\ nFlush = 0 /\ nSleep = 0
    /\ rOut = NoOut

\* the program: main, once or in a loop
Init ==
    /\ Fresh
    /\ pc = "measure"
    /\ once \in BOOLEAN
    /\ delayValid \in BOOLEAN
    /\ term = <<0, 0>>
    /\ world = NoWorld
    /\ frame = <<>>
    /\ rUser = "" /\ rPid = 0

Next == TerminalSize \/ PrintScreen \/ Render \/ Flush \/ Sleep

Spec == Init /\ [][Next]_vars

\* get_out_path alone, on every world of ResolveWorlds
InitResolve ==
    /\ Fresh
    /\ pc = "resolve"
    /\ once = TRUE
    /\ delayValid = TRUE
    /\ term = <<0, 0>>
    /\ world \in ResolveWorlds
    /\ frame = <<>>
    /\ rUser \in Users
    /\ rPid = 101

NextResolve == Resolve

SpecResolve == InitResolve /\ [][NextResolve]_vars

\* the clipping of display_screen alone, on every frame and terminal size
ScreenLines ==
    {"", " * * * ", SummaryLine(2),
     GroupLine([path |-> "/foo", pids |-> <<101, 102>>])}

Frames == UNION {[1..n -> ScreenLines] : n \in 0..MaxFrameLen}

InitScreen ==
    /\ Fresh
    /\ pc = "render"
    /\ once = TRUE
    /\ delayValid = TRUE
    /\ term \in TermSizes
    /\ world = NoWorld
    /\ frame \in Frames
    /\ rUser = "" /\ rPid = 0

NextScreen == Render

SpecScreen == InitScreen /\ [][NextScreen]_vars

(***************************************************************************)
(* The claims.                                                             *)
(***************************************************************************)
RECURSIVE TotalPids(_, _, _)
TotalPids(procs, ord, n) ==
    IF n = 0 THEN 0 ELSE TotalPids(procs, ord, n - 1) + Len(procs[ord[n]].pids)

\* C1: the number in the frame's summary line is the total number of
\* processes, the sum of the lengths of the pid lists of the retained groups.
C1_SummaryIsTotal ==
    pc = "render" =>
        frame[1] = SummaryLine(TotalPids(processes, order.frame, Len(order.frame)))

\* C2: no path resolved for a group in a sampling cycle is the empty string
\* (the sampler's assertion never fails).
C2_PathNeverEmpty == \A i \in 1..Len(resolved) : resolved[i] # ""

\* what the representative process's environment gives for `out`
Environ == ReadToString(world, EnvironPath(rPid))

HasVar(content, name, v) ==
    \E i \in 1..Len(Split(content, NUL)) : Split(content, NUL)[i] = name \o "=" \o v

OutValues == {"/foo", "/nix/x", "/x", "/bin"}

Tier1Gives(v) == v # "" /\ IsSome(Environ) /\ HasVar(Environ[1], "out", v)

Tier1Nothing == \A v \in OutValues : ~Tier1Gives(v)

\* C3: when tier 1 yields nothing and the account owns no entry of /tmp, the
\* resolver returns "(unknown)".
C3_NoDirGivesPlaceholder ==
    (pc = "resolved" /\ Tier1Nothing /\ OwnedBy(world, rUser) = {})
        => rOut.path = "(unknown)"

PsCalls == SelectSeq(calls, LAMBDA c : c.op = "ps")

\* C4, as stated: with no build accounts the sampler returns an empty map and
\* issues no process-table query.
C4_NoQueryWhenNoAccounts ==
    (pc = "render" /\ accounts = {}) => (processes = EmptyMap /\ PsCalls = <<>>)

\* C4, amended: with no build accounts the sampler still issues the
\* process-table query, once and with an empty account list, and returns an
\* empty map when that query fails or lists no process.
C4_QueryStillIssued ==
    (pc = "render" /\ accounts = {}) =>
        /\ calls = <<Call("ps", "", world.psRuns)>>
        /\ (~IsSome(PsList(world, accounts)) \/ PsList(world, accounts) = Some(""))
              => (processes = EmptyMap /\ frame = <<SummaryLine(0), "", " * * * ", "">>)

C4_Witness ==
    pc = "render" /\ accounts = {} /\ world.procs # <<>> /\ processes = EmptyMap
    /\ Len(calls) = 1

\* C5: when the environment is readable and holds a non-empty `out`, the
\* resolver returns that value and makes no other query; the scan is made
\* only when tier 1 gave nothing, the env-vars read only after the scan.
C5_Tier1ShortCircuits ==
    pc = "resolved" =>
        /\ \A v \in OutValues :
              Tier1Gives(v) =>
                  /\ rOut.path = v
                  /\ rOut.calls = <<Call("read", EnvironPath(rPid), TRUE)>>
        /\ \A i \in 1..Len(rOut.calls) :
              /\ rOut.calls[i].op = "sh" => Tier1Nothing
              /\ (rOut.calls[i].op = "read" /\ i > 1)
                    => (Tier1Nothing /\ rOut.calls[i - 1].op = "sh")

C5_Witness ==
    /\ pc = "resolved"
    /\ Tier1Gives("/foo")
    /\ rOut.path = "/foo"
    /\ world.shRuns
    /\ OwnedBy(world, rUser) # {}
    /\ Len(rOut.calls) = 1

EnvVarsValues == {"", "/bar", "/baz", "/qux"}

\* the directory the scan finds, and the `out` its env-vars file declares
FoundDir == Newest(OwnedBy(world, rUser)).name

Declares(dir, v) ==
    /\ IsSome(ReadToString(world, EnvVarsPath(dir)))
    /\ \E i \in 1..Len(Lines(ReadToString(world, EnvVarsPath(dir))[1])) :
          Lines(ReadToString(world, EnvVarsPath(dir))[1])[i] = EnvVarsOut(v)

\* C6: when tier 1 yields nothing and the scan finds the directory D of the
\* account, the resolver returns the value D/env-vars declares for `out`, and
\* D's path when the file is missing, unreadable or declares none.
C6_DirThenEnvVars ==
    (pc = "resolved" /\ Tier1Nothing /\ world.shRuns /\ OwnedBy(world, rUser) # {}) =>
        /\ \A v \in EnvVarsValues : Declares(FoundDir, v) => rOut.path = v
        /\ (\A v \in EnvVarsValues : ~Declares(FoundDir, v)) => rOut.path = FoundDir

\* an external query of the cycle failed, or the scan printed nothing
QueryFailed ==
    \E i \in 1..Len(calls) :
        \/ ~calls[i].ok
        \/ calls[i].op = "sh" /\ ShFind(world, calls[i].arg) = ""

\* C7: a failed external query never ends the program: the cycle still has
\* its frame and goes on to render and flush it.
C7_QueryFailureRecovered ==
    (QueryFailed /\ ~termFailed) => (pc \in {"render", "flush"} /\ frame # <<>>)

\* C8: the screen is the first min(L, H) lines of the frame, in order, each
\* exactly W characters: the line cut to W characters, then blanks.
C8_ClipAndPad ==
    pc \in {"flush", "panic"} =>
        /\ Len(screen) = Min(Len(frame), term[2])
        /\ \A i \in 1..Len(screen) :
              /\ Len(screen[i]) = term[1]
              /\ \A j \in 1..term[1] :
                    Char(screen[i], j) = IF j <= Len(frame[i]) THEN Char(frame[i], j)
                                         ELSE " "

C8_Witness ==
    /\ pc = "flush"
    /\ Len(frame) > term[2]
    /\ Len(screen) = term[2]
    /\ \E i, j \in 1..Len(screen) : Len(frame[i]) > term[1] /\ Len(frame[j]) < term[1]

\* C9: with --once there is one measure/sample/render/flush sequence and no
\* sleep; in a loop the steps of the cycles follow one another strictly, so
\* the sampling of a cycle starts only after the flush of the one before.
C9_Sequencing ==
    /\ nSleep <= nFlush /\ nFlush <= nRender /\ nRender <= nSample
    /\ nSample <= nMeasure /\ nMeasure <= nSleep + 1
    /\ once => (nSleep = 0 /\ nMeasure <= 1)
    /\ pc = "exit_ok" =>
          (once /\ nMeasure = 1 /\ nSample = 1 /\ nRender = 1 /\ nFlush = 1)
    /\ (pc \in {"render", "flush"} /\ nSample > 1) => nFlush = nSample - 1

C9_Witness == ~once /\ pc = "flush" /\ nSample = 2 /\ nFlush = 1 /\ nSleep = 1

\* C10: once the terminal-size query, the write or the flush has failed, the
\* program has ended with an error and no further step is ever taken.
C10_TerminalFailureIsFatal ==
    termFailed => (pc \in {"exit_err", "panic"} /\ Counters = atFailure)

C10_Witness == termFailed /\ pc = "exit_err" /\ ~once /\ nMeasure = 2 /\ nFlush = 1

====
